---- MODULE Spec2Model ----
(***************************************************************************)
(* NovaMint: the collection/token ledger (contract NovaMint) and the ACL   *)
(* grants it makes on encrypted hidden-owner handles.                      *)
(*                                                                         *)
(* Every external function of the contract is one action.  A call that     *)
(* reverts leaves the storage and the ACL as they were (EVM revert).  The  *)
(* handlers are operators from the current state and the call's arguments  *)
(* to the call's outcome: its error, its return value and the state it     *)
(* commits.                                                                *)
(***************************************************************************)
EXTENDS Integers, Sequences, FiniteSets, TLC

\* ---------------------------------------------------------------- bounds
\* Largest value of the ledger's unsigned integer type (uint256, scaled).
UintMax == 4
\* Number of collections created in a run; calls address ids 0 .. MaxCollections + 1.
MaxCollections == 2

\* ---------------------------------------------------------------- types
\* address(0): the default value of an unset address slot.
ZeroAddress == "0x0"
\* The accounts that send transactions; msg.sender is never address(0).
Accounts == {"alice", "bob"}
\* The contract's own address (address(this)), distinct from every account.
This == "NovaMint"
Uint == 0..UintMax
CollectionIds == 0..(MaxCollections + 1)
\* bytes(collectionName).length == 0 holds for "" only.
Names == {"", "Genesis"}

\* An encrypted input as the client builds it:
\* createEncryptedInput(contractAddress, user).addAddress(plain).encrypt().
\* The handle stands for one ciphertext; it is bound to the contract and
\* to the user it was encrypted for.
Handles == [plain : Accounts, user : Accounts]
\* encrypt() returns the handle together with its input proof; the clients
\* always submit the two together.
ProofOf(h) == h.user
\* The zero handle: default value of an unset eaddress slot.
NoHandle == [plain |-> ZeroAddress, user |-> ZeroAddress]

\* What the history holds for an id no createCollection call has returned.
NotCreated == [name |-> "", maxSupply |-> 0, creator |-> ZeroAddress, baseTokenId |-> 0]

\* Default value of _collections[id] for an id that was never written.
EmptyCollection ==
    [name |-> "", maxSupply |-> 0, minted |-> 0, creator |-> ZeroAddress,
     baseTokenId |-> 0, hiddenOwner |-> NoHandle, exists |-> FALSE]

VARIABLES
    _collectionCount,   \* uint256 private _collectionCount
    _nextTokenId,       \* uint256 private _nextTokenId = 1
    _collections,       \* mapping(uint256 => Collection)
    _tokenToCollection, \* mapping(uint256 => uint256)
    _owners,            \* mapping(uint256 => address)
    _balances,          \* mapping(address => uint256)
    acl,                \* persistent ACL grants <<handle, address>> made by the contract
    mintLog,            \* history: per collection, the token ids returned by its successful mints, in order
    storedFor,          \* history: <<creator of the collection, handle>> for every handle ever stored in a hiddenOwner field
    lastPlain,          \* history: per collection, plaintext of the last encrypted input accepted for it
    createLog,          \* history: the ids returned by the successful createCollection calls, in order
    created,            \* history: per collection id, the caller, the arguments and the cursor of the createCollection call that returned it
    tokenLog,           \* history: <<tokenId, minter, collectionId>> of every successful mint
    mempool,            \* per client, the transaction it signed that the ledger has not applied yet
    receipts,           \* per client, the outcome tx.wait() gave for its transaction of the last batch
    phase,              \* "submitting" while clients sign, "applying" while the ledger orders the batch
    slotsAtClose,       \* history: per collection, maxSupply - minted when the batch was closed
    activeAddress,      \* CollectionCard prop activeAddress: the connected wallet, none before a wallet connects
    pc,                 \* per handler of the card, the await it stands at and how that await has settled
    busy,               \* isMinting, isUpdating, isDecrypting
    submitted           \* history: the handlers whose current or last invocation sent a transaction or a decryption request

vars == <<_collectionCount, _nextTokenId, _collections, _tokenToCollection,
          _owners, _balances, acl, mintLog, storedFor, lastPlain,
          createLog, created, tokenLog, mempool, receipts, phase, slotsAtClose,
          activeAddress, pc, busy, submitted>>

\* The state of one CollectionCard component.
card == <<activeAddress, pc, busy, submitted>>

\* The three async handlers of CollectionCard.
Handlers == {"handleMint", "handleUpdateHiddenOwner", "handleDecryptHiddenOwner"}

\* A handler that is not running.
Idle == [k |-> 0, st |-> "idle"]

\* What the model remembers of the calls that succeeded.
history == <<mintLog, storedFor, lastPlain, createLog, created, tokenLog>>

\* The state of the clients and of their transactions in flight.
clients == <<mempool, receipts, phase, slotsAtClose>>

\* No transaction in flight.
NoTx == [fn |-> "none", id |-> 0, maxSupply |-> 0]

\* No receipt yet.
NoReceipt == [fn |-> "none", id |-> 0, err |-> "", ret |-> 0]

\* The contract storage and the ACL: what a revert must leave untouched.
ledger == <<_collectionCount, _nextTokenId, _collections, _tokenToCollection,
            _owners, _balances, acl>>

Init ==
    /\ _collectionCount = 0
    /\ _nextTokenId = 1
    /\ _collections = [i \in CollectionIds |-> EmptyCollection]
    /\ _tokenToCollection = [t \in Uint |-> 0]
    /\ _owners = [t \in Uint |-> ZeroAddress]
    /\ _balances = [a \in Accounts |-> 0]
    /\ acl = {}
    /\ mintLog = [i \in CollectionIds |-> <<>>]
    /\ storedFor = {}
    /\ lastPlain = [i \in CollectionIds |-> ZeroAddress]
    /\ createLog = <<>>
    /\ created = [i \in CollectionIds |-> NotCreated]
    /\ tokenLog = {}
    /\ mempool = [a \in Accounts |-> NoTx]
    /\ receipts = [a \in Accounts |-> NoReceipt]
    /\ phase = "submitting"
    /\ slotsAtClose = [i \in CollectionIds |-> 0]
    /\ activeAddress = ZeroAddress
    /\ pc = [h \in Handlers |-> Idle]
    /\ busy = [h \in Handlers |-> FALSE]
    /\ submitted = {}

\* ------------------------------------------------- EncryptedFieldService
\* FHE.fromExternal(hiddenOwnerInput, inputProof): the proof is modelled by
\* the account it attests the ciphertext was encrypted for; the input
\* verifies when that account is msg.sender and the proof belongs to the handle.
fromExternalOk(sender, hiddenOwnerInput, inputProof) ==
    inputProof = sender /\ hiddenOwnerInput.user = inputProof

\* FHE.allowThis(h); FHE.allow(h, sender): persistent grants on the ACL.
allowThisAndSender(grants, h, sender) ==
    grants \cup {<<h, This>>, <<h, sender>>}

\* Authorized disclosure (userDecryptEaddress): the plaintext behind the
\* handle when both the contract and the user hold a grant on it, else 0.
userDecrypt(h, user) ==
    IF <<h, This>> \in acl /\ <<h, user>> \in acl THEN h.plain ELSE ZeroAddress

\* ------------------------------------------------------------ the contract
\* event CollectionCreated(id, creator, name, maxSupply, hiddenOwner)
CollectionCreated(id, creator, name, maxSupply, handle) ==
    [event |-> "CollectionCreated", id |-> id, creator |-> creator, name |-> name,
     maxSupply |-> maxSupply, hiddenOwner |-> handle]

\* event HiddenOwnerUpdated(id, hiddenOwner)
HiddenOwnerUpdated(id, handle) ==
    [event |-> "HiddenOwnerUpdated", id |-> id, hiddenOwner |-> handle]

\* event Minted(collectionId, tokenId, to)
Minted(collectionId, tokenId, to) ==
    [event |-> "Minted", collectionId |-> collectionId, tokenId |-> tokenId, to |-> to]

\* event Transfer(from, to, tokenId)
Transfer(from, to, tokenId) ==
    [event |-> "Transfer", from |-> from, to |-> to, tokenId |-> tokenId]

\* Outcome of a call that reverts with error e: storage and ACL as before,
\* no event in the log.  asked lists the requests the call made to the
\* encryption service before it ended; a call that reverts in its own
\* checks has made none.
Revert(e) ==
    [err |-> e, ret |-> 0, events |-> <<>>, asked |-> <<>>,
     count |-> _collectionCount, next |-> _nextTokenId, colls |-> _collections,
     t2c |-> _tokenToCollection, owners |-> _owners, balances |-> _balances,
     grants |-> acl]

\* createCollection with the token-id cursor advanced by one slot, not by maxSupply.
createCollection_cursorByOne(sender, collectionName, maxSupply, hiddenOwnerInput, inputProof) ==
    IF collectionName = "" THEN Revert("EmptyName")
    ELSE IF maxSupply = 0 THEN Revert("InvalidSupply")
    ELSE IF ~fromExternalOk(sender, hiddenOwnerInput, inputProof) THEN Revert("InvalidProof")
    ELSE IF _collectionCount + 1 > UintMax \/ _nextTokenId + maxSupply > UintMax
    THEN Revert("Panic")
    ELSE [Revert("") EXCEPT
            !.ret = _collectionCount + 1,
            !.count = _collectionCount + 1,
            !.next = _nextTokenId + 1,
            !.colls = [_collections EXCEPT ![_collectionCount + 1] =
                          [name |-> collectionName, maxSupply |-> maxSupply,
                           minted |-> 0, creator |-> sender, baseTokenId |-> _nextTokenId,
                           hiddenOwner |-> hiddenOwnerInput, exists |-> TRUE]],
            !.grants = allowThisAndSender(acl, hiddenOwnerInput, sender)]

\* createCollection that keeps the ACL grants when the cursor overflows afterwards.
createCollection_grantsSurviveFailure(sender, collectionName, maxSupply, hiddenOwnerInput, inputProof) ==
    IF collectionName = "" THEN Revert("EmptyName")
    ELSE IF maxSupply = 0 THEN Revert("InvalidSupply")
    ELSE IF ~fromExternalOk(sender, hiddenOwnerInput, inputProof) THEN Revert("InvalidProof")
    ELSE IF _collectionCount + 1 > UintMax \/ _nextTokenId + maxSupply > UintMax
    THEN [Revert("Panic") EXCEPT !.grants = allowThisAndSender(acl, hiddenOwnerInput, sender)]
    ELSE [Revert("") EXCEPT
            !.ret = _collectionCount + 1,
            !.count = _collectionCount + 1,
            !.next = _nextTokenId + maxSupply,
            !.colls = [_collections EXCEPT ![_collectionCount + 1] =
                          [name |-> collectionName, maxSupply |-> maxSupply,
                           minted |-> 0, creator |-> sender, baseTokenId |-> _nextTokenId,
                           hiddenOwner |-> hiddenOwnerInput, exists |-> TRUE]],
            !.grants = allowThisAndSender(acl, hiddenOwnerInput, sender)]

\* createCollection with collectionId = _collectionCount++ (post-increment): the first id is 0.
createCollection_postIncrement(sender, collectionName, maxSupply, hiddenOwnerInput, inputProof) ==
    IF collectionName = "" THEN Revert("EmptyName")
    ELSE IF maxSupply = 0 THEN Revert("InvalidSupply")
    ELSE IF ~fromExternalOk(sender, hiddenOwnerInput, inputProof) THEN Revert("InvalidProof")
    ELSE IF _collectionCount + 1 > UintMax \/ _nextTokenId + maxSupply > UintMax
    THEN Revert("Panic")
    ELSE [Revert("") EXCEPT
            !.ret = _collectionCount,
            !.count = _collectionCount + 1,
            !.next = _nextTokenId + maxSupply,
            !.colls = [_collections EXCEPT ![_collectionCount] =
                          [name |-> collectionName, maxSupply |-> maxSupply,
                           minted |-> 0, creator |-> sender, baseTokenId |-> _nextTokenId,
                           hiddenOwner |-> hiddenOwnerInput, exists |-> TRUE]],
            !.grants = allowThisAndSender(acl, hiddenOwnerInput, sender)]

\* createCollection with unchecked arithmetic: the cursor wraps around instead of reverting.
createCollection_unchecked(sender, collectionName, maxSupply, hiddenOwnerInput, inputProof) ==
    IF collectionName = "" THEN Revert("EmptyName")
    ELSE IF maxSupply = 0 THEN Revert("InvalidSupply")
    ELSE IF ~fromExternalOk(sender, hiddenOwnerInput, inputProof) THEN Revert("InvalidProof")
    ELSE [Revert("") EXCEPT
            !.ret = (_collectionCount + 1) % (MaxCollections + 2),
            !.count = (_collectionCount + 1) % (MaxCollections + 2),
            !.next = (_nextTokenId + maxSupply) % (UintMax + 1),
            !.colls = [_collections EXCEPT ![(_collectionCount + 1) % (MaxCollections + 2)] =
                          [name |-> collectionName, maxSupply |-> maxSupply,
                           minted |-> 0, creator |-> sender, baseTokenId |-> _nextTokenId,
                           hiddenOwner |-> hiddenOwnerInput, exists |-> TRUE]],
            !.grants = allowThisAndSender(acl, hiddenOwnerInput, sender)]

\* createCollection that advances the cursor by maxSupply + 1: one id is lost between two ranges.
createCollection_gap(sender, collectionName, maxSupply, hiddenOwnerInput, inputProof) ==
    IF collectionName = "" THEN Revert("EmptyName")
    ELSE IF maxSupply = 0 THEN Revert("InvalidSupply")
    ELSE IF ~fromExternalOk(sender, hiddenOwnerInput, inputProof) THEN Revert("InvalidProof")
    ELSE IF _collectionCount + 1 > UintMax \/ _nextTokenId + maxSupply + 1 > UintMax
    THEN Revert("Panic")
    ELSE [Revert("") EXCEPT
            !.ret = _collectionCount + 1,
            !.count = _collectionCount + 1,
            !.next = _nextTokenId + maxSupply + 1,
            !.colls = [_collections EXCEPT ![_collectionCount + 1] =
                          [name |-> collectionName, maxSupply |-> maxSupply,
                           minted |-> 0, creator |-> sender, baseTokenId |-> _nextTokenId,
                           hiddenOwner |-> hiddenOwnerInput, exists |-> TRUE]],
            !.grants = allowThisAndSender(acl, hiddenOwnerInput, sender),
            !.events = <<CollectionCreated(_collectionCount + 1, sender, collectionName,
                                           maxSupply, hiddenOwnerInput)>>]

\* createCollection that hands the input to the encryption service before it looks at name and supply.
createCollection_validatesInputFirst(sender, collectionName, maxSupply, hiddenOwnerInput, inputProof) ==
    IF ~fromExternalOk(sender, hiddenOwnerInput, inputProof)
    THEN [Revert("InvalidProof") EXCEPT !.asked = <<"fromExternal">>]
    ELSE IF collectionName = ""
    THEN [Revert("EmptyName") EXCEPT !.asked = <<"fromExternal">>]
    ELSE IF maxSupply = 0
    THEN [Revert("InvalidSupply") EXCEPT !.asked = <<"fromExternal">>]
    ELSE IF _collectionCount + 1 > UintMax \/ _nextTokenId + maxSupply > UintMax
    THEN [Revert("Panic") EXCEPT !.asked = <<"fromExternal", "allowThis", "allow">>]
    ELSE [Revert("") EXCEPT
            !.ret = _collectionCount + 1,
            !.count = _collectionCount + 1,
            !.next = _nextTokenId + maxSupply,
            !.asked = <<"fromExternal", "allowThis", "allow">>,
            !.colls = [_collections EXCEPT ![_collectionCount + 1] =
                          [name |-> collectionName, maxSupply |-> maxSupply,
                           minted |-> 0, creator |-> sender, baseTokenId |-> _nextTokenId,
                           hiddenOwner |-> hiddenOwnerInput, exists |-> TRUE]],
            !.grants = allowThisAndSender(acl, hiddenOwnerInput, sender),
            !.events = <<CollectionCreated(_collectionCount + 1, sender, collectionName,
                                           maxSupply, hiddenOwnerInput)>>]

\* function createCollection(collectionName, maxSupply, hiddenOwnerInput, inputProof)
createCollection(sender, collectionName, maxSupply, hiddenOwnerInput, inputProof) ==
    IF collectionName = "" THEN Revert("EmptyName")
    ELSE IF maxSupply = 0 THEN Revert("InvalidSupply")
    ELSE IF ~fromExternalOk(sender, hiddenOwnerInput, inputProof)
    THEN [Revert("InvalidProof") EXCEPT !.asked = <<"fromExternal">>]
    ELSE IF _collectionCount + 1 > UintMax \/ _nextTokenId + maxSupply > UintMax
    THEN [Revert("Panic") EXCEPT !.asked = <<"fromExternal", "allowThis", "allow">>]
    ELSE
      LET encryptedOwner == hiddenOwnerInput
          collectionId == _collectionCount + 1
          baseId == _nextTokenId
      IN [err |-> "", ret |-> collectionId,
          events |-> <<CollectionCreated(collectionId, sender, collectionName,
                                         maxSupply, encryptedOwner)>>,
          asked |-> <<"fromExternal", "allowThis", "allow">>,
          count |-> collectionId,
          next |-> _nextTokenId + maxSupply,
          colls |-> [_collections EXCEPT ![collectionId] =
                        [name |-> collectionName, maxSupply |-> maxSupply,
                         minted |-> 0, creator |-> sender, baseTokenId |-> baseId,
                         hiddenOwner |-> encryptedOwner, exists |-> TRUE]],
          t2c |-> _tokenToCollection, owners |-> _owners, balances |-> _balances,
          grants |-> allowThisAndSender(acl, encryptedOwner, sender)]

\* onlyCollectionOwner without the creator comparison.
onlyCollectionOwner_noCreatorCheck(sender, id) ==
    IF ~_collections[id].exists THEN "InvalidCollection" ELSE ""

\* modifier onlyCollectionOwner(id): the error it reverts with, "" when it passes.
onlyCollectionOwner(sender, id) ==
    IF ~_collections[id].exists THEN "InvalidCollection"
    ELSE IF _collections[id].creator # sender THEN "NotCollectionOwner"
    ELSE ""

\* setHiddenOwner that stores the new handle but makes no grant on it.
setHiddenOwner_noGrant(sender, collectionId, hiddenOwnerInput, inputProof) ==
    IF onlyCollectionOwner(sender, collectionId) # ""
    THEN Revert(onlyCollectionOwner(sender, collectionId))
    ELSE IF ~fromExternalOk(sender, hiddenOwnerInput, inputProof) THEN Revert("InvalidProof")
    ELSE [Revert("") EXCEPT
            !.colls = [_collections EXCEPT ![collectionId].hiddenOwner = hiddenOwnerInput]]

\* setHiddenOwner that grants on the new handle but leaves the old one in the record.
setHiddenOwner_noStore(sender, collectionId, hiddenOwnerInput, inputProof) ==
    IF onlyCollectionOwner(sender, collectionId) # ""
    THEN Revert(onlyCollectionOwner(sender, collectionId))
    ELSE IF ~fromExternalOk(sender, hiddenOwnerInput, inputProof) THEN Revert("InvalidProof")
    ELSE [Revert("") EXCEPT
            !.grants = allowThisAndSender(acl, hiddenOwnerInput, sender)]

\* setHiddenOwner that takes the grants on the superseded handle away.
setHiddenOwner_revokesOld(sender, collectionId, hiddenOwnerInput, inputProof) ==
    IF onlyCollectionOwner(sender, collectionId) # ""
    THEN Revert(onlyCollectionOwner(sender, collectionId))
    ELSE IF ~fromExternalOk(sender, hiddenOwnerInput, inputProof) THEN Revert("InvalidProof")
    ELSE [Revert("") EXCEPT
            !.colls = [_collections EXCEPT ![collectionId].hiddenOwner = hiddenOwnerInput],
            !.grants = allowThisAndSender(
                          acl \ {<<_collections[collectionId].hiddenOwner, This>>,
                                 <<_collections[collectionId].hiddenOwner, sender>>},
                          hiddenOwnerInput, sender),
            !.events = <<HiddenOwnerUpdated(collectionId, hiddenOwnerInput)>>]

\* setHiddenOwner that rewrites the collection record and loses its minted count.
setHiddenOwner_resetsMinted(sender, collectionId, hiddenOwnerInput, inputProof) ==
    IF onlyCollectionOwner(sender, collectionId) # ""
    THEN Revert(onlyCollectionOwner(sender, collectionId))
    ELSE IF ~fromExternalOk(sender, hiddenOwnerInput, inputProof) THEN Revert("InvalidProof")
    ELSE [Revert("") EXCEPT
            !.colls = [_collections EXCEPT ![collectionId].hiddenOwner = hiddenOwnerInput,
                                           ![collectionId].minted = 0],
            !.grants = allowThisAndSender(acl, hiddenOwnerInput, sender),
            !.events = <<HiddenOwnerUpdated(collectionId, hiddenOwnerInput)>>]

\* setHiddenOwner that validates the encrypted input before the modifier's checks.
setHiddenOwner_validatesFirst(sender, collectionId, hiddenOwnerInput, inputProof) ==
    IF ~fromExternalOk(sender, hiddenOwnerInput, inputProof) THEN Revert("InvalidProof")
    ELSE IF onlyCollectionOwner(sender, collectionId) # ""
    THEN Revert(onlyCollectionOwner(sender, collectionId))
    ELSE [Revert("") EXCEPT
            !.colls = [_collections EXCEPT ![collectionId].hiddenOwner = hiddenOwnerInput],
            !.grants = allowThisAndSender(acl, hiddenOwnerInput, sender),
            !.events = <<HiddenOwnerUpdated(collectionId, hiddenOwnerInput)>>]

\* function setHiddenOwner(collectionId, hiddenOwnerInput, inputProof)
setHiddenOwner(sender, collectionId, hiddenOwnerInput, inputProof) ==
    IF onlyCollectionOwner(sender, collectionId) # ""
    THEN Revert(onlyCollectionOwner(sender, collectionId))
    ELSE IF ~fromExternalOk(sender, hiddenOwnerInput, inputProof)
    THEN [Revert("InvalidProof") EXCEPT !.asked = <<"fromExternal">>]
    ELSE
      LET encryptedOwner == hiddenOwnerInput
      IN [Revert("") EXCEPT
            !.asked = <<"fromExternal", "allowThis", "allow">>,
            !.colls = [_collections EXCEPT ![collectionId].hiddenOwner = encryptedOwner],
            !.grants = allowThisAndSender(acl, encryptedOwner, sender),
            !.events = <<HiddenOwnerUpdated(collectionId, encryptedOwner)>>]

\* mint with the supply check written minted > maxSupply.
mint_supplyOffByOne(sender, collectionId) ==
    LET collection == _collections[collectionId] IN
    IF ~collection.exists THEN Revert("InvalidCollection")
    ELSE IF collection.minted > collection.maxSupply THEN Revert("SupplyExhausted")
    ELSE IF collection.baseTokenId + collection.minted > UintMax THEN Revert("Panic")
    ELSE [Revert("") EXCEPT
            !.ret = collection.baseTokenId + collection.minted,
            !.colls = [_collections EXCEPT ![collectionId].minted = collection.minted + 1],
            !.owners = [_owners EXCEPT ![collection.baseTokenId + collection.minted] = sender],
            !.balances = [_balances EXCEPT ![sender] = _balances[sender] + 1],
            !.t2c = [_tokenToCollection EXCEPT
                        ![collection.baseTokenId + collection.minted] = collectionId]]

\* mint with the supply check written minted + 1 >= maxSupply: the last slot is never minted.
mint_supplyTooEarly(sender, collectionId) ==
    LET collection == _collections[collectionId] IN
    IF ~collection.exists THEN Revert("InvalidCollection")
    ELSE IF collection.minted + 1 >= collection.maxSupply THEN Revert("SupplyExhausted")
    ELSE [Revert("") EXCEPT
            !.ret = collection.baseTokenId + collection.minted,
            !.colls = [_collections EXCEPT ![collectionId].minted = collection.minted + 1],
            !.owners = [_owners EXCEPT ![collection.baseTokenId + collection.minted] = sender],
            !.balances = [_balances EXCEPT ![sender] = _balances[sender] + 1],
            !.t2c = [_tokenToCollection EXCEPT
                        ![collection.baseTokenId + collection.minted] = collectionId]]

\* mint that increments minted before it computes the token id.
mint_idAfterIncrement(sender, collectionId) ==
    LET collection == _collections[collectionId] IN
    IF ~collection.exists THEN Revert("InvalidCollection")
    ELSE IF collection.minted >= collection.maxSupply THEN Revert("SupplyExhausted")
    ELSE IF collection.baseTokenId + collection.minted + 1 > UintMax THEN Revert("Panic")
    ELSE [Revert("") EXCEPT
            !.ret = collection.baseTokenId + collection.minted + 1,
            !.colls = [_collections EXCEPT ![collectionId].minted = collection.minted + 1],
            !.owners = [_owners EXCEPT ![collection.baseTokenId + collection.minted + 1] = sender],
            !.balances = [_balances EXCEPT ![sender] = _balances[sender] + 1],
            !.t2c = [_tokenToCollection EXCEPT
                        ![collection.baseTokenId + collection.minted + 1] = collectionId]]

\* mint that also lets the minter read the collection's hidden owner.
mint_grantsMinter(sender, collectionId) ==
    LET collection == _collections[collectionId] IN
    IF ~collection.exists THEN Revert("InvalidCollection")
    ELSE IF collection.minted >= collection.maxSupply THEN Revert("SupplyExhausted")
    ELSE [Revert("") EXCEPT
            !.ret = collection.baseTokenId + collection.minted,
            !.colls = [_collections EXCEPT ![collectionId].minted = collection.minted + 1],
            !.owners = [_owners EXCEPT ![collection.baseTokenId + collection.minted] = sender],
            !.balances = [_balances EXCEPT ![sender] = _balances[sender] + 1],
            !.t2c = [_tokenToCollection EXCEPT
                        ![collection.baseTokenId + collection.minted] = collectionId],
            !.grants = acl \cup {<<collection.hiddenOwner, sender>>}]

\* mint that does not record the token's collection.
mint_noBackReference(sender, collectionId) ==
    LET collection == _collections[collectionId] IN
    IF ~collection.exists THEN Revert("InvalidCollection")
    ELSE IF collection.minted >= collection.maxSupply THEN Revert("SupplyExhausted")
    ELSE [Revert("") EXCEPT
            !.ret = collection.baseTokenId + collection.minted,
            !.colls = [_collections EXCEPT ![collectionId].minted = collection.minted + 1],
            !.owners = [_owners EXCEPT ![collection.baseTokenId + collection.minted] = sender],
            !.balances = [_balances EXCEPT ![sender] = _balances[sender] + 1]]

\* mint that credits the balance of the collection's creator, not of the minter.
mint_creditsCreator(sender, collectionId) ==
    LET collection == _collections[collectionId] IN
    IF ~collection.exists THEN Revert("InvalidCollection")
    ELSE IF collection.minted >= collection.maxSupply THEN Revert("SupplyExhausted")
    ELSE [Revert("") EXCEPT
            !.ret = collection.baseTokenId + collection.minted,
            !.colls = [_collections EXCEPT ![collectionId].minted = collection.minted + 1],
            !.owners = [_owners EXCEPT ![collection.baseTokenId + collection.minted] = sender],
            !.balances = [_balances EXCEPT ![collection.creator] = _balances[collection.creator] + 1],
            !.t2c = [_tokenToCollection EXCEPT
                        ![collection.baseTokenId + collection.minted] = collectionId]]

\* mint that makes the collection's creator the owner of the token.
mint_ownerIsCreator(sender, collectionId) ==
    LET collection == _collections[collectionId] IN
    IF ~collection.exists THEN Revert("InvalidCollection")
    ELSE IF collection.minted >= collection.maxSupply THEN Revert("SupplyExhausted")
    ELSE [Revert("") EXCEPT
            !.ret = collection.baseTokenId + collection.minted,
            !.colls = [_collections EXCEPT ![collectionId].minted = collection.minted + 1],
            !.owners = [_owners EXCEPT
                           ![collection.baseTokenId + collection.minted] = collection.creator],
            !.balances = [_balances EXCEPT ![sender] = _balances[sender] + 1],
            !.t2c = [_tokenToCollection EXCEPT
                        ![collection.baseTokenId + collection.minted] = collectionId]]

\* mint that decrements maxSupply (counting the remaining slots down) instead of counting minted up.
mint_decrementsSupply(sender, collectionId) ==
    LET collection == _collections[collectionId] IN
    IF ~collection.exists THEN Revert("InvalidCollection")
    ELSE IF collection.maxSupply = 0 THEN Revert("SupplyExhausted")
    ELSE [Revert("") EXCEPT
            !.ret = collection.baseTokenId,
            !.colls = [_collections EXCEPT
                          ![collectionId].maxSupply = collection.maxSupply - 1,
                          ![collectionId].baseTokenId = collection.baseTokenId + 1],
            !.owners = [_owners EXCEPT ![collection.baseTokenId] = sender],
            !.balances = [_balances EXCEPT ![sender] = _balances[sender] + 1],
            !.t2c = [_tokenToCollection EXCEPT ![collection.baseTokenId] = collectionId]]

\* mint that emits Transfer before Minted, and with the minter as the sender of the transfer.
mint_transferFirst(sender, collectionId) ==
    LET collection == _collections[collectionId] IN
    IF ~collection.exists THEN Revert("InvalidCollection")
    ELSE IF collection.minted >= collection.maxSupply THEN Revert("SupplyExhausted")
    ELSE [Revert("") EXCEPT
            !.ret = collection.baseTokenId + collection.minted,
            !.colls = [_collections EXCEPT ![collectionId].minted = collection.minted + 1],
            !.owners = [_owners EXCEPT ![collection.baseTokenId + collection.minted] = sender],
            !.balances = [_balances EXCEPT ![sender] = _balances[sender] + 1],
            !.t2c = [_tokenToCollection EXCEPT
                        ![collection.baseTokenId + collection.minted] = collectionId],
            !.events = <<Transfer(sender, sender, collection.baseTokenId + collection.minted),
                         Minted(collectionId, collection.baseTokenId + collection.minted, sender)>>]

\* mint guarded by the creator check of setHiddenOwner.
mint_onlyCreator(sender, collectionId) ==
    LET collection == _collections[collectionId] IN
    IF ~collection.exists THEN Revert("InvalidCollection")
    ELSE IF collection.creator # sender THEN Revert("NotCollectionOwner")
    ELSE IF collection.minted >= collection.maxSupply THEN Revert("SupplyExhausted")
    ELSE [Revert("") EXCEPT
            !.ret = collection.baseTokenId + collection.minted,
            !.colls = [_collections EXCEPT ![collectionId].minted = collection.minted + 1],
            !.owners = [_owners EXCEPT ![collection.baseTokenId + collection.minted] = sender],
            !.balances = [_balances EXCEPT ![sender] = _balances[sender] + 1],
            !.t2c = [_tokenToCollection EXCEPT
                        ![collection.baseTokenId + collection.minted] = collectionId],
            !.events = <<Minted(collectionId, collection.baseTokenId + collection.minted, sender),
                         Transfer(ZeroAddress, sender, collection.baseTokenId + collection.minted)>>]

\* mint that limits each caller, not the collection, to maxSupply tokens.
mint_perCallerSupply(sender, collectionId) ==
    LET collection == _collections[collectionId] IN
    IF ~collection.exists THEN Revert("InvalidCollection")
    ELSE IF _balances[sender] >= collection.maxSupply THEN Revert("SupplyExhausted")
    ELSE IF collection.baseTokenId + collection.minted > UintMax THEN Revert("Panic")
    ELSE [Revert("") EXCEPT
            !.ret = collection.baseTokenId + collection.minted,
            !.colls = [_collections EXCEPT ![collectionId].minted = collection.minted + 1],
            !.owners = [_owners EXCEPT ![collection.baseTokenId + collection.minted] = sender],
            !.balances = [_balances EXCEPT ![sender] = _balances[sender] + 1],
            !.t2c = [_tokenToCollection EXCEPT
                        ![collection.baseTokenId + collection.minted] = collectionId],
            !.events = <<Minted(collectionId, collection.baseTokenId + collection.minted, sender),
                         Transfer(ZeroAddress, sender, collection.baseTokenId + collection.minted)>>]

\* mint that numbers the tokens of every collection from 1, ignoring baseTokenId.
mint_idFromCount(sender, collectionId) ==
    LET collection == _collections[collectionId] IN
    IF ~collection.exists THEN Revert("InvalidCollection")
    ELSE IF collection.minted >= collection.maxSupply THEN Revert("SupplyExhausted")
    ELSE [Revert("") EXCEPT
            !.ret = collection.minted + 1,
            !.colls = [_collections EXCEPT ![collectionId].minted = collection.minted + 1],
            !.owners = [_owners EXCEPT ![collection.minted + 1] = sender],
            !.balances = [_balances EXCEPT ![sender] = _balances[sender] + 1],
            !.t2c = [_tokenToCollection EXCEPT ![collection.minted + 1] = collectionId],
            !.events = <<Minted(collectionId, collection.minted + 1, sender),
                         Transfer(ZeroAddress, sender, collection.minted + 1)>>]

\* mint that also advances the global token-id cursor.
mint_advancesCursor(sender, collectionId) ==
    LET collection == _collections[collectionId] IN
    IF ~collection.exists THEN Revert("InvalidCollection")
    ELSE IF collection.minted >= collection.maxSupply THEN Revert("SupplyExhausted")
    ELSE [Revert("") EXCEPT
            !.ret = collection.baseTokenId + collection.minted,
            !.next = _nextTokenId + 1,
            !.colls = [_collections EXCEPT ![collectionId].minted = collection.minted + 1],
            !.owners = [_owners EXCEPT ![collection.baseTokenId + collection.minted] = sender],
            !.balances = [_balances EXCEPT ![sender] = _balances[sender] + 1],
            !.t2c = [_tokenToCollection EXCEPT
                        ![collection.baseTokenId + collection.minted] = collectionId],
            !.events = <<Minted(collectionId, collection.baseTokenId + collection.minted, sender),
                         Transfer(ZeroAddress, sender, collection.baseTokenId + collection.minted)>>]

\* mint that sets the minter's balance to 1 where it should add 1.
mint_balanceSet(sender, collectionId) ==
    LET collection == _collections[collectionId] IN
    IF ~collection.exists THEN Revert("InvalidCollection")
    ELSE IF collection.minted >= collection.maxSupply THEN Revert("SupplyExhausted")
    ELSE [Revert("") EXCEPT
            !.ret = collection.baseTokenId + collection.minted,
            !.colls = [_collections EXCEPT ![collectionId].minted = collection.minted + 1],
            !.owners = [_owners EXCEPT ![collection.baseTokenId + collection.minted] = sender],
            !.balances = [_balances EXCEPT ![sender] = 1],
            !.t2c = [_tokenToCollection EXCEPT
                        ![collection.baseTokenId + collection.minted] = collectionId],
            !.events = <<Minted(collectionId, collection.baseTokenId + collection.minted, sender),
                         Transfer(ZeroAddress, sender, collection.baseTokenId + collection.minted)>>]

\* function mint(collectionId)
mint(sender, collectionId) ==
    LET collection == _collections[collectionId] IN
    IF ~collection.exists THEN Revert("InvalidCollection")
    ELSE IF collection.minted >= collection.maxSupply THEN Revert("SupplyExhausted")
    ELSE
      LET tokenId == collection.baseTokenId + collection.minted IN
      IF tokenId > UintMax \/ collection.minted + 1 > UintMax
         \/ _balances[sender] + 1 > UintMax
      THEN Revert("Panic")
      ELSE [Revert("") EXCEPT
              !.ret = tokenId,
              !.colls = [_collections EXCEPT ![collectionId].minted = collection.minted + 1],
              !.owners = [_owners EXCEPT ![tokenId] = sender],
              !.balances = [_balances EXCEPT ![sender] = _balances[sender] + 1],
              !.t2c = [_tokenToCollection EXCEPT ![tokenId] = collectionId],
              !.events = <<Minted(collectionId, tokenId, sender),
                           Transfer(ZeroAddress, sender, tokenId)>>]

\* The transaction commits outcome r of a call.
Commit(r) ==
    /\ _collectionCount' = r.count
    /\ _nextTokenId' = r.next
    /\ _collections' = r.colls
    /\ _tokenToCollection' = r.t2c
    /\ _owners' = r.owners
    /\ _balances' = r.balances
    /\ acl' = r.grants

\* ---------------------------------------------------------------- actions
\* A call that reverts leaves every variable as it was: it is a stuttering
\* step, which [Next]_vars admits, so the actions of Next are the calls that
\* pass every require.  What the reverting calls return and leave behind is
\* stated on the handler operators, for every input in every state.
\* One createCollection transaction, with the history it leaves.
CreateCollectionCall(sender, collectionName, maxSupply, hiddenOwnerInput) ==
      LET r == createCollection(sender, collectionName, maxSupply, hiddenOwnerInput,
                                ProofOf(hiddenOwnerInput)) IN
      /\ r.err # "" \/ _collectionCount < MaxCollections
      /\ IF r.err # ""
         THEN UNCHANGED <<ledger, history>>
         ELSE /\ Commit(r)
              /\ createLog' = Append(createLog, r.ret)
              /\ storedFor' = storedFor \cup {<<r.colls[r.ret].creator,
                                                 r.colls[r.ret].hiddenOwner>>}
              /\ lastPlain' = [lastPlain EXCEPT ![r.ret] = hiddenOwnerInput.plain]
              /\ created' = [created EXCEPT ![r.ret] =
                               [name |-> collectionName, maxSupply |-> maxSupply,
                                creator |-> sender, baseTokenId |-> _nextTokenId]]
              /\ UNCHANGED <<mintLog, tokenLog>>

CreateCollection ==
    \E sender \in Accounts, collectionName \in Names, maxSupply \in Uint,
       hiddenOwnerInput \in Handles :
      /\ createCollection(sender, collectionName, maxSupply, hiddenOwnerInput,
                          ProofOf(hiddenOwnerInput)).err = ""
      /\ CreateCollectionCall(sender, collectionName, maxSupply, hiddenOwnerInput)
      /\ UNCHANGED <<clients, card>>

\* One setHiddenOwner transaction, with the history it leaves.
SetHiddenOwnerCall(sender, collectionId, hiddenOwnerInput) ==
      LET r == setHiddenOwner(sender, collectionId, hiddenOwnerInput,
                              ProofOf(hiddenOwnerInput)) IN
      IF r.err # ""
      THEN UNCHANGED <<ledger, history>>
      ELSE /\ Commit(r)
           /\ storedFor' = storedFor \cup {<<r.colls[collectionId].creator,
                                              r.colls[collectionId].hiddenOwner>>}
           /\ lastPlain' = [lastPlain EXCEPT ![collectionId] = hiddenOwnerInput.plain]
           /\ UNCHANGED <<mintLog, createLog, created, tokenLog>>

SetHiddenOwner ==
    \E sender \in Accounts, collectionId \in CollectionIds,
       hiddenOwnerInput \in Handles :
      /\ setHiddenOwner(sender, collectionId, hiddenOwnerInput,
                        ProofOf(hiddenOwnerInput)).err = ""
      /\ SetHiddenOwnerCall(sender, collectionId, hiddenOwnerInput)
      /\ UNCHANGED <<clients, card>>

\* One mint transaction, with the history it leaves.
MintCall(sender, collectionId) ==
      LET r == mint(sender, collectionId) IN
      IF r.err # ""
      THEN UNCHANGED <<ledger, history>>
      ELSE /\ Commit(r)
           /\ mintLog' = [mintLog EXCEPT ![collectionId] = Append(@, r.ret)]
           /\ tokenLog' = tokenLog \cup {<<r.ret, sender, collectionId>>}
           /\ UNCHANGED <<storedFor, lastPlain, createLog, created>>

Mint ==
    \E sender \in Accounts, collectionId \in CollectionIds :
      /\ mint(sender, collectionId).err = ""
      /\ MintCall(sender, collectionId)
      /\ UNCHANGED <<clients, card>>

Next == CreateCollection \/ SetHiddenOwner \/ Mint

Spec == Init /\ [][Next]_vars

\* ------------------------------------------------- concurrent clients
\* Each client works from the list its last getAllCollections poll returned
\* (refetched every 12 s and after its own transactions), so the card it
\* clicks may be stale: every collection showed supplyLeft > 0 in the list
\* fetched right after its creation, hence a client can sign a mint for any
\* collection that exists.  The button is disabled while its own
\* transaction is pending.
SubmitMint ==
    \E client \in Accounts, collectionId \in CollectionIds :
      /\ phase = "submitting"
      /\ mempool[client] = NoTx
      /\ _collections[collectionId].exists
      /\ mempool' = [mempool EXCEPT ![client] =
                        [fn |-> "mint", id |-> collectionId, maxSupply |-> 0]]
      /\ UNCHANGED <<ledger, history, receipts, phase, slotsAtClose, card>>

\* handleSubmit: the form requires a name and a supply; the hidden owner
\* defaults to the connected address, encrypted for that address.
SubmitCreate ==
    \E client \in Accounts, maxSupply \in 1..2 :
      /\ phase = "submitting"
      /\ mempool[client] = NoTx
      /\ _collectionCount
           + Cardinality({a \in Accounts : mempool[a].fn = "createCollection"})
           < MaxCollections
      /\ mempool' = [mempool EXCEPT ![client] =
                        [fn |-> "createCollection", id |-> 0, maxSupply |-> maxSupply]]
      /\ UNCHANGED <<ledger, history, receipts, phase, slotsAtClose, card>>

\* The transactions in flight are handed to the ledger as one batch.
Close ==
    /\ phase = "submitting"
    /\ \E a \in Accounts : mempool[a] # NoTx
    /\ phase' = "applying"
    /\ receipts' = [a \in Accounts |-> NoReceipt]
    /\ slotsAtClose' = [i \in CollectionIds |->
                           _collections[i].maxSupply - _collections[i].minted]
    /\ UNCHANGED <<ledger, history, mempool, card>>

\* The ledger picks any transaction of the batch and runs the whole call;
\* the client's tx.wait() gets the outcome.
Apply ==
    \E client \in Accounts :
      LET tx == mempool[client] IN
      /\ phase = "applying"
      /\ tx # NoTx
      /\ mempool' = [mempool EXCEPT ![client] = NoTx]
      /\ UNCHANGED <<phase, slotsAtClose, card>>
      /\ IF tx.fn = "mint"
         THEN LET r == mint(client, tx.id) IN
              /\ MintCall(client, tx.id)
              /\ receipts' = [receipts EXCEPT ![client] =
                    [fn |-> "mint", id |-> tx.id, err |-> r.err, ret |-> r.ret]]
         ELSE LET input == [plain |-> client, user |-> client]
                  r == createCollection(client, "Genesis", tx.maxSupply, input,
                                        ProofOf(input)) IN
              /\ CreateCollectionCall(client, "Genesis", tx.maxSupply, input)
              /\ receipts' = [receipts EXCEPT ![client] =
                    [fn |-> "createCollection", id |-> 0, err |-> r.err, ret |-> r.ret]]

\* Every transaction of the batch has its receipt: the clients refetch and go on.
NewRound ==
    /\ phase = "applying"
    /\ \A a \in Accounts : mempool[a] = NoTx
    /\ phase' = "submitting"
    /\ UNCHANGED <<ledger, history, mempool, receipts, slotsAtClose, card>>

ClientNext == SubmitMint \/ SubmitCreate \/ Close \/ Apply \/ NewRound

ClientSpec == Init /\ [][ClientNext]_vars

\* -------------------------------------------------------- CollectionCard
\* One card of the client, showing one collection to the connected wallet.
\* Each handler is an async function: it runs up to an await, the awaited
\* call settles on its own (settle), and the handler's continuation is then
\* run by the event loop (resume).  The three handlers of one card interleave
\* at their awaits.

\* collection.id of the collection the card shows.
CardId == 1

\* collection.creator of the collection the card shows.
CardCreator == "alice"

\* collection.maxSupply of the collection the card shows.
CardSupply == 2

\* The encrypted address the collection was created with.
CardHandle == [plain |-> CardCreator, user |-> CardCreator]

\* The calls each handler awaits, in the order of its try block.
Awaits(h) ==
    CASE h = "handleMint" ->
           <<"signerPromise", "contract.mint", "tx.wait">>
      [] h = "handleUpdateHiddenOwner" ->
           <<"signerPromise", "input.encrypt", "contract.setHiddenOwner", "tx.wait">>
      [] h = "handleDecryptHiddenOwner" ->
           <<"signerPromise", "signer.signTypedData", "instance.userDecrypt">>

\* The awaited calls that send something out of the browser: a transaction
\* to the contract or a decryption request to the relayer.
Submits == {"contract.mint", "contract.setHiddenOwner", "instance.userDecrypt"}

\* const isCreator = activeAddress && collection.creator == activeAddress
isCreator == activeAddress # ZeroAddress /\ _collections[CardId].creator = activeAddress

\* The state in which the card is mounted: the ledger after CardCreator's
\* createCollection("Genesis", CardSupply, CardHandle), every handler idle,
\* and any wallet, or none, connected.
CardInit ==
    /\ _collectionCount = CardId
    /\ _nextTokenId = 1 + CardSupply
    /\ _collections = [i \in CollectionIds |->
                         IF i = CardId
                         THEN [name |-> "Genesis", maxSupply |-> CardSupply, minted |-> 0,
                               creator |-> CardCreator, baseTokenId |-> 1,
                               hiddenOwner |-> CardHandle, exists |-> TRUE]
                         ELSE EmptyCollection]
    /\ _tokenToCollection = [t \in Uint |-> 0]
    /\ _owners = [t \in Uint |-> ZeroAddress]
    /\ _balances = [a \in Accounts |-> 0]
    /\ acl = allowThisAndSender({}, CardHandle, CardCreator)
    /\ mintLog = [i \in CollectionIds |-> <<>>]
    /\ storedFor = {<<CardCreator, CardHandle>>}
    /\ lastPlain = [i \in CollectionIds |-> IF i = CardId THEN CardCreator ELSE ZeroAddress]
    /\ createLog = <<CardId>>
    /\ created = [i \in CollectionIds |->
                    IF i = CardId
                    THEN [name |-> "Genesis", maxSupply |-> CardSupply,
                          creator |-> CardCreator, baseTokenId |-> 1]
                    ELSE NotCreated]
    /\ tokenLog = {}
    /\ mempool = [a \in Accounts |-> NoTx]
    /\ receipts = [a \in Accounts |-> NoReceipt]
    /\ phase = "submitting"
    /\ slotsAtClose = [i \in CollectionIds |-> 0]
    /\ activeAddress \in Accounts \cup {ZeroAddress}
    /\ pc = [h \in Handlers |-> Idle]
    /\ busy = [h \in Handlers |-> FALSE]
    /\ submitted = {}

\* The handler sets its flag and runs up to its first await.
enter(h) ==
    /\ busy' = [busy EXCEPT ![h] = TRUE]
    /\ pc' = [pc EXCEPT ![h] = [k |-> 1, st |-> "pending"]]
    /\ submitted' = submitted \ {h}
    /\ UNCHANGED <<ledger, history, clients, activeAddress>>

\* const handleMint = async () => { setIsMinting(true); try { ... } ... }
\* The mint button is disabled while isMinting.
handleMint ==
    /\ ~busy["handleMint"]
    /\ enter("handleMint")

\* const handleUpdateHiddenOwner = async () => { ... }
\* filled: newHiddenOwner.trim() is not empty; ready: the Zama instance is loaded.
handleUpdateHiddenOwner ==
    \E filled \in BOOLEAN, ready \in BOOLEAN :
      /\ ~busy["handleUpdateHiddenOwner"]
      /\ IF ~isCreator \/ ~filled \/ ~ready
         THEN UNCHANGED vars
         ELSE enter("handleUpdateHiddenOwner")

\* const handleDecryptHiddenOwner = async () => { ... }
handleDecryptHiddenOwner ==
    \E ready \in BOOLEAN :
      /\ ~busy["handleDecryptHiddenOwner"]
      /\ IF ~isCreator \/ ~ready
         THEN UNCHANGED vars
         ELSE enter("handleDecryptHiddenOwner")

\* The call handler h awaits settles: it resolves, it resolves to no signer
\* (signerPromise only), or it rejects.  A signer exists only for a connected
\* wallet.  tx.wait() resolves when the transaction is mined without revert,
\* and the ledger then holds its effect; a reverted transaction rejects.
settle(h) ==
    /\ pc[h].st = "pending"
    /\ \E outcome \in {"resolved", "null", "rejected"}, plain \in Accounts :
         LET call == Awaits(h)[pc[h].k]
             input == [plain |-> plain, user |-> activeAddress] IN
         /\ outcome = "null" => call = "signerPromise"
         /\ outcome = "resolved" /\ call = "signerPromise" => activeAddress # ZeroAddress
         /\ pc' = [pc EXCEPT ![h].st = outcome]
         /\ IF outcome = "resolved" /\ call = "tx.wait"
            THEN IF h = "handleMint"
                 THEN /\ mint(activeAddress, CardId).err = ""
                      /\ MintCall(activeAddress, CardId)
                 ELSE /\ setHiddenOwner(activeAddress, CardId, input, ProofOf(input)).err = ""
                      /\ SetHiddenOwnerCall(activeAddress, CardId, input)
            ELSE UNCHANGED <<ledger, history>>
    /\ UNCHANGED <<clients, activeAddress, busy, submitted>>

\* resume with the flag reset at the end of the try block instead of in
\* finally: a throw leaves the flag set.
resume_resetInTry(h) ==
    /\ pc[h].st \in {"resolved", "null", "rejected"}
    /\ IF pc[h].st = "resolved" /\ pc[h].k < Len(Awaits(h))
       THEN /\ pc' = [pc EXCEPT ![h] = [k |-> pc[h].k + 1, st |-> "pending"]]
            /\ submitted' = IF Awaits(h)[pc[h].k + 1] \in Submits
                            THEN submitted \cup {h} ELSE submitted
            /\ UNCHANGED busy
       ELSE /\ pc' = [pc EXCEPT ![h] = Idle]
            /\ busy' = [busy EXCEPT ![h] = (pc[h].st # "resolved")]
            /\ UNCHANGED submitted
    /\ UNCHANGED <<ledger, history, clients, activeAddress>>

\* The continuation of handler h after its await settled.  A resolved await
\* goes on to the next awaited call of the try block; a missing signer or a
\* rejection throws into catch; the end of the try block and the catch both
\* run finally, which resets the flag.
resume(h) ==
    /\ pc[h].st \in {"resolved", "null", "rejected"}
    /\ IF pc[h].st = "resolved" /\ pc[h].k < Len(Awaits(h))
       THEN /\ pc' = [pc EXCEPT ![h] = [k |-> pc[h].k + 1, st |-> "pending"]]
            /\ submitted' = IF Awaits(h)[pc[h].k + 1] \in Submits
                            THEN submitted \cup {h} ELSE submitted
            /\ UNCHANGED busy
       ELSE /\ pc' = [pc EXCEPT ![h] = Idle]
            /\ busy' = [busy EXCEPT ![h] = FALSE]
            /\ UNCHANGED submitted
    /\ UNCHANGED <<ledger, history, clients, activeAddress>>

Settle == \E h \in Handlers : settle(h)

Resume == \E h \in Handlers : resume(h)

CardNext ==
    handleMint \/ handleUpdateHiddenOwner \/ handleDecryptHiddenOwner \/ Settle \/ Resume

\* Every awaited call settles, and the event loop runs every continuation
\* that is ready.
CardFairness == \A h \in Handlers : WF_vars(settle(h)) /\ WF_vars(resume(h))

CardSpec == CardInit /\ [][CardNext]_vars /\ CardFairness

\* ------------------------------------------------------------- accessors
\* function totalCollections()
totalCollections == _collectionCount

\* function hiddenOwner(collectionId)
hiddenOwner(collectionId) ==
    IF ~_collections[collectionId].exists
    THEN [err |-> "InvalidCollection", ret |-> NoHandle]
    ELSE [err |-> "", ret |-> _collections[collectionId].hiddenOwner]

\* Result of a view function that reverts with error e.
ViewRevert(e, default) == [err |-> e, ret |-> default]

\* struct CollectionView of collection id built from record c.
CollectionView(id, c) ==
    [id |-> id, name |-> c.name, maxSupply |-> c.maxSupply, minted |-> c.minted,
     creator |-> c.creator, baseTokenId |-> c.baseTokenId, hiddenOwner |-> c.hiddenOwner]

\* getCollection without the existence check: an unknown id yields an empty view.
getCollection_noExistsCheck(collectionId) ==
    [err |-> "", ret |-> CollectionView(collectionId, _collections[collectionId])]

\* function getCollection(collectionId)
getCollection(collectionId) ==
    LET collection == _collections[collectionId] IN
    IF ~collection.exists
    THEN ViewRevert("InvalidCollection", CollectionView(0, EmptyCollection))
    ELSE [err |-> "", ret |-> CollectionView(collectionId, collection)]

\* The loop of getAllCollections with the array index taken as the collection id.
RECURSIVE getAllCollectionsLoop_idIsIndex(_, _, _)
getAllCollectionsLoop_idIsIndex(i, count, allCollections) ==
    IF i >= count THEN [err |-> "", ret |-> allCollections]
    ELSE LET g == getCollection(i) IN
         IF g.err # "" THEN ViewRevert(g.err, <<>>)
         ELSE getAllCollectionsLoop_idIsIndex(i + 1, count, Append(allCollections, g.ret))

\* for (uint256 i = 0; i < count; i++) allCollections[i] = getCollection(i + 1);
\* a revert of getCollection reverts the whole call.  The array slot i is
\* element i + 1 of the sequence.
RECURSIVE getAllCollectionsLoop(_, _, _)
getAllCollectionsLoop(i, count, allCollections) ==
    IF i >= count THEN [err |-> "", ret |-> allCollections]
    ELSE LET g == getCollection(i + 1) IN
         IF g.err # "" THEN ViewRevert(g.err, <<>>)
         ELSE getAllCollectionsLoop(i + 1, count, Append(allCollections, g.ret))

\* function getAllCollections()
getAllCollections == getAllCollectionsLoop(0, _collectionCount, <<>>)

\* function mintedCount(collectionId)
mintedCount(collectionId) ==
    IF ~_collections[collectionId].exists
    THEN ViewRevert("InvalidCollection", 0)
    ELSE [err |-> "", ret |-> _collections[collectionId].minted]

\* function ownerOf(tokenId)
ownerOf(tokenId) ==
    LET owner == _owners[tokenId] IN
    IF owner = ZeroAddress
    THEN ViewRevert("InvalidToken", ZeroAddress)
    ELSE [err |-> "", ret |-> owner]

\* function tokenCollection(tokenId)
tokenCollection(tokenId) ==
    LET collectionId == _tokenToCollection[tokenId] IN
    IF collectionId = 0
    THEN ViewRevert("InvalidToken", 0)
    ELSE [err |-> "", ret |-> collectionId]

\* function balanceOf(owner)
balanceOf(owner) ==
    IF owner = ZeroAddress
    THEN ViewRevert("ZeroAddress", 0)
    ELSE [err |-> "", ret |-> _balances[owner]]

\* tokenExists that takes every id below the cursor, minted or only reserved, as existing.
tokenExists_belowCursor(tokenId) == tokenId >= 1 /\ tokenId < _nextTokenId

\* function tokenExists(tokenId)
tokenExists(tokenId) == _owners[tokenId] # ZeroAddress

\* ------------------------------------------------------ helper notions
\* The committed state of an outcome, in the order of ledger.
After(r) == <<r.count, r.next, r.colls, r.t2c, r.owners, r.balances, r.grants>>

Existing == {i \in CollectionIds : _collections[i].exists}

\* The reserved token-id range [baseTokenId, baseTokenId + maxSupply - 1].
Range(i) == _collections[i].baseTokenId .. (_collections[i].baseTokenId + _collections[i].maxSupply - 1)

\* Every proof a caller can attach to a handle: the genuine one or one made for another account.
Proofs == Accounts

\* ------------------------------------------------------------ type check
TypeOK ==
    /\ _collectionCount \in Uint
    /\ _nextTokenId \in Uint
    /\ \A i \in CollectionIds :
         /\ _collections[i].maxSupply \in Uint
         /\ _collections[i].minted \in Uint
         /\ _collections[i].baseTokenId \in Uint
         /\ _collections[i].creator \in Accounts \cup {ZeroAddress}
    /\ \A t \in Uint : _owners[t] \in Accounts \cup {ZeroAddress}
    /\ \A t \in Uint : _tokenToCollection[t] \in CollectionIds
    /\ \A a \in Accounts : _balances[a] \in Uint

\* ================================================================ claims

\* C1: in every reachable state every existing collection has
\* 0 <= minted <= maxSupply.
C1_MintedWithinSupply ==
    \A i \in Existing :
        /\ 0 <= _collections[i].minted
        /\ _collections[i].minted <= _collections[i].maxSupply

\* A collection of supply 2 whose two slots were both minted.
C1_Witness ==
    \E i \in Existing :
        /\ _collections[i].maxSupply = 2
        /\ _collections[i].minted = 2
        /\ Len(mintLog[i]) = 2

\* C2: on an existing collection mint fails with SupplyExhausted if and only
\* if minted = maxSupply at the call, and it succeeds whenever
\* minted < maxSupply, whoever calls.
C2_ExhaustedExactlyAtMaxSupply ==
    \A i \in Existing : \A sender \in Accounts :
        LET r == mint(sender, i) IN
        /\ (r.err = "SupplyExhausted") <=> (_collections[i].minted = _collections[i].maxSupply)
        /\ (_collections[i].minted < _collections[i].maxSupply) => (r.err = "")

\* One collection is used up and refuses the mint while another one, minted
\* from already, still accepts it.
C2_Witness ==
    \E i, j \in Existing :
        /\ Len(mintLog[i]) = _collections[i].maxSupply
        /\ mint("bob", i).err = "SupplyExhausted"
        /\ Len(mintLog[j]) = 1
        /\ _collections[j].maxSupply = 2
        /\ mint("bob", j).err = ""

\* C3: the n-th successful mint of a collection returned baseTokenId + (n - 1),
\* for every n up to maxSupply and whatever else happened in between; once
\* maxSupply mints succeeded the next call fails with SupplyExhausted and
\* leaves minted as it is.
C3_TokenIdsInOrder ==
    \A i \in Existing :
        /\ Len(mintLog[i]) <= _collections[i].maxSupply
        /\ \A n \in 1..Len(mintLog[i]) :
              mintLog[i][n] = _collections[i].baseTokenId + (n - 1)
        /\ Len(mintLog[i]) = _collections[i].maxSupply =>
              \A sender \in Accounts :
                 /\ mint(sender, i).err = "SupplyExhausted"
                 /\ mint(sender, i).colls[i].minted = _collections[i].minted

\* The second collection (base 2) was minted out by two different accounts,
\* after the first collection had been minted from.
C3_Witness ==
    /\ _collections[2].exists
    /\ _collections[2].maxSupply = 2
    /\ mintLog[2] = <<2, 3>>
    /\ _owners[2] # _owners[3]
    /\ mintLog[1] = <<1>>

\* C4: the reserved token-id ranges of two distinct collections are disjoint.
C4_RangesDisjoint ==
    \A i, j \in Existing : i # j => Range(i) \cap Range(j) = {}

\* Two collections, the first with more than one reserved slot.
C4_Witness ==
    /\ Existing = {1, 2}
    /\ _collections[1].maxSupply = 2
    /\ Range(2) = {3}

\* C5: setHiddenOwner on an existing collection succeeds only for the
\* collection's creator; for every other caller, whatever input and proof it
\* passes, it fails with NotCollectionOwner and the stored handle stays.
C5_OnlyCreatorSetsHiddenOwner ==
    \A i \in Existing : \A sender \in Accounts : \A h \in Handles : \A proof \in Proofs :
        LET r == setHiddenOwner(sender, i, h, proof) IN
        /\ r.err = "" => sender = _collections[i].creator
        /\ sender # _collections[i].creator =>
              /\ r.err = "NotCollectionOwner"
              /\ r.colls[i].hiddenOwner = _collections[i].hiddenOwner

\* alice's collection, whose handle she has replaced once, rejects bob even
\* with an input that verifies for bob, and accepts alice.
C5_Witness ==
    /\ _collectionCount = 1
    /\ _collections[1].creator = "alice"
    /\ Cardinality(storedFor) = 2
    /\ setHiddenOwner("bob", 1, [plain |-> "bob", user |-> "bob"], "bob").err
          = "NotCollectionOwner"
    /\ setHiddenOwner("alice", 1, [plain |-> "bob", user |-> "alice"], "alice").err = ""

\* C6: a call of createCollection, setHiddenOwner or mint that fails, with
\* whatever error, commits the state it started from: counters, collection
\* records, token owners, back-references, balances and ACL grants.
C6_FailedCallsChangeNothing ==
    [](
        /\ \A sender \in Accounts : \A n \in Names : \A m \in Uint :
           \A h \in Handles : \A proof \in Proofs :
              LET r == createCollection(sender, n, m, h, proof) IN
              r.err # "" => After(r) = ledger
        /\ \A sender \in Accounts : \A i \in CollectionIds :
           \A h \in Handles : \A proof \in Proofs :
              LET r == setHiddenOwner(sender, i, h, proof) IN
              r.err # "" => After(r) = ledger
        /\ \A sender \in Accounts : \A i \in CollectionIds :
              LET r == mint(sender, i) IN
              r.err # "" => After(r) = ledger
      )

\* A state in which each kind of failure can be provoked: empty name, zero
\* supply, a proof for someone else, a cursor overflow, an unknown id, a
\* caller who is not the creator, and an exhausted collection.
C6_Witness ==
    /\ _collections[1].exists
    /\ _collections[1].creator = "alice"
    /\ _collections[1].minted = _collections[1].maxSupply
    /\ createCollection("bob", "", 1, [plain |-> "bob", user |-> "bob"], "bob").err = "EmptyName"
    /\ createCollection("bob", "Genesis", 0, [plain |-> "bob", user |-> "bob"], "bob").err
          = "InvalidSupply"
    /\ createCollection("bob", "Genesis", 1, [plain |-> "bob", user |-> "alice"], "alice").err
          = "InvalidProof"
    /\ createCollection("bob", "Genesis", UintMax, [plain |-> "bob", user |-> "bob"], "bob").err
          = "Panic"
    /\ setHiddenOwner("bob", 0, [plain |-> "bob", user |-> "bob"], "bob").err
          = "InvalidCollection"
    /\ setHiddenOwner("bob", 1, [plain |-> "bob", user |-> "bob"], "bob").err
          = "NotCollectionOwner"
    /\ setHiddenOwner("alice", 1, [plain |-> "bob", user |-> "bob"], "bob").err
          = "InvalidProof"
    /\ mint("bob", 1).err = "SupplyExhausted"
    /\ mint("bob", 0).err = "InvalidCollection"

\* C7: for every existing collection the ledger itself and the creator hold
\* a read grant on the handle now stored in hiddenOwner.
C7_CreatorAndLedgerAuthorized ==
    \A i \in Existing :
        /\ <<_collections[i].hiddenOwner, This>> \in acl
        /\ <<_collections[i].hiddenOwner, _collections[i].creator>> \in acl

\* A collection whose current handle was written by setHiddenOwner.
C7_Witness ==
    /\ _collectionCount = 1
    /\ Cardinality(storedFor) = 2
    /\ <<hiddenOwner(1).ret, _collections[1].creator>> \in acl

\* C8: no account other than a collection's creator holds a grant from the
\* ledger on a handle that was ever stored as that collection's hiddenOwner.
C8_OnlyCreatorGranted ==
    \A sf \in storedFor : \A p \in Accounts :
        <<sf[2], p>> \in acl => p = sf[1]

\* alice's collection, with a replaced handle, was minted from by bob.
C8_Witness ==
    /\ _collectionCount = 1
    /\ _collections[1].creator = "alice"
    /\ Cardinality(storedFor) = 2
    /\ _owners[1] = "bob"

\* C9: authorized disclosure of hiddenOwner(id) to the creator yields the
\* plaintext of the encrypted input of the last successful createCollection
\* or setHiddenOwner for that id.
C9_DisclosureYieldsLastInput ==
    \A i \in Existing :
        /\ lastPlain[i] \in Accounts
        /\ hiddenOwner(i).err = ""
        /\ userDecrypt(hiddenOwner(i).ret, _collections[i].creator) = lastPlain[i]

\* alice created with encrypted(alice), then set encrypted(bob): disclosure
\* yields bob.
C9_Witness ==
    /\ _collectionCount = 1
    /\ _collections[1].creator = "alice"
    /\ storedFor = {<<"alice", [plain |-> "alice", user |-> "alice"]>>,
                    <<"alice", [plain |-> "bob", user |-> "alice"]>>}
    /\ lastPlain[1] = "bob"
    /\ userDecrypt(hiddenOwner(1).ret, "alice") = "bob"

\* C10: the k-th successful createCollection returned id k, a failed call
\* consumes no id, id 0 is never issued, and the existing ids are exactly
\* 1 .. totalCollections().
C10_SequentialIds ==
    /\ \A k \in 1..Len(createLog) : createLog[k] = k
    /\ Len(createLog) = totalCollections
    /\ Existing = 1..totalCollections
    /\ ~_collections[0].exists
    /\ \A sender \in Accounts : \A n \in Names : \A m \in Uint : \A h \in Handles :
          LET r == createCollection(sender, n, m, h, ProofOf(h)) IN
          r.err # "" => r.count = totalCollections

\* Two collections were created, by different accounts.
C10_Witness ==
    /\ createLog = <<1, 2>>
    /\ _collections[1].creator # _collections[2].creator

\* The ids some successful createCollection call has returned.
CreatedIds == {createLog[k] : k \in 1..Len(createLog)}

\* C11: getCollection, hiddenOwner and mintedCount fail with InvalidCollection
\* exactly for the ids that were never created; for a created id they return
\* the name, maxSupply, creator and baseTokenId of its creation, the number
\* of mints so far and the handle stored last.
C11_CollectionAccessors ==
    \A i \in CollectionIds :
        LET g == getCollection(i)
            h == hiddenOwner(i)
            m == mintedCount(i)
        IN
        /\ (g.err = "InvalidCollection") <=> (i \notin CreatedIds)
        /\ (h.err = "InvalidCollection") <=> (i \notin CreatedIds)
        /\ (m.err = "InvalidCollection") <=> (i \notin CreatedIds)
        /\ i \in CreatedIds =>
              /\ g.err = "" /\ h.err = "" /\ m.err = ""
              /\ g.ret.id = i
              /\ g.ret.name = created[i].name
              /\ g.ret.maxSupply = created[i].maxSupply
              /\ g.ret.creator = created[i].creator
              /\ g.ret.baseTokenId = created[i].baseTokenId
              /\ g.ret.minted = Len(mintLog[i])
              /\ m.ret = Len(mintLog[i])
              /\ h.ret = [plain |-> lastPlain[i], user |-> created[i].creator]
              /\ g.ret.hiddenOwner = h.ret

\* Two collections: the first minted from once, the second with a replaced
\* handle; ids 0 and 3 were never created.
C11_Witness ==
    /\ CreatedIds = {1, 2}
    /\ getCollection(1).ret.minted = 1
    /\ getCollection(2).ret.baseTokenId = 3
    /\ getCollection(2).ret.hiddenOwner.plain # getCollection(2).ret.creator
    /\ Cardinality(storedFor) >= 2
    /\ getCollection(0).err = "InvalidCollection"
    /\ mintedCount(3).err = "InvalidCollection"

\* The token ids some successful mint has returned.
MintedIds == {e[1] : e \in tokenLog}

\* C12: ownerOf and tokenCollection fail with InvalidToken exactly for the
\* token ids no successful mint has returned (reserved but unminted ids and
\* ids outside every range included); for a minted token they return the
\* account that minted it and the collection it was minted from.
C12_TokenAccessors ==
    /\ \A t \in Uint :
          /\ (ownerOf(t).err = "InvalidToken") <=> (t \notin MintedIds)
          /\ (tokenCollection(t).err = "InvalidToken") <=> (t \notin MintedIds)
    /\ \A e \in tokenLog :
          /\ ownerOf(e[1]) = [err |-> "", ret |-> e[2]]
          /\ tokenCollection(e[1]) = [err |-> "", ret |-> e[3]]

\* bob minted token 1 from alice's collection of two slots; token 2 is
\* reserved but unminted, token 0 and the ids from the cursor on are in no range.
C12_Witness ==
    /\ _collections[1].creator = "alice"
    /\ _collections[1].maxSupply = 2
    /\ tokenLog = {<<1, "bob", 1>>}
    /\ ownerOf(1).ret = "bob"
    /\ ownerOf(2).err = "InvalidToken"
    /\ tokenCollection(0).err = "InvalidToken"
    /\ ownerOf(_nextTokenId).err = "InvalidToken"

\* C13: for every account p, balanceOf(p) is the number of successful mints
\* p made, over all collections, which is the number of token ids whose
\* owner is p (0 when p never minted); balanceOf(address(0)) fails with
\* ZeroAddress in every state.
C13_BalanceCountsMints ==
    /\ \A p \in Accounts :
          /\ balanceOf(p) = [err |-> "", ret |-> Cardinality({e \in tokenLog : e[2] = p})]
          /\ balanceOf(p).ret = Cardinality({t \in Uint : _owners[t] = p})
    /\ balanceOf(ZeroAddress).err = "ZeroAddress"

\* alice minted one token from each of two collections, bob never minted.
C13_Witness ==
    /\ tokenLog = {<<1, "alice", 1>>, <<3, "alice", 2>>}
    /\ balanceOf("alice").ret = 2
    /\ balanceOf("bob").ret = 0

\* C14: the owner of a token is the account that called mint for it; once a
\* token is minted, no step changes its owner or its collection
\* back-reference, and the token never disappears.
C14_TokensNeverChange ==
    [][/\ \A t \in Uint :
             _owners[t] # ZeroAddress =>
                /\ _owners'[t] = _owners[t]
                /\ _tokenToCollection'[t] = _tokenToCollection[t]
       /\ \A t \in Uint :
             (_owners[t] = ZeroAddress /\ _owners'[t] # ZeroAddress) =>
                <<t, _owners'[t], _tokenToCollection'[t]>> \in (tokenLog' \ tokenLog)
      ]_vars

\* bob owns token 1 of alice's collection, and a second collection was
\* created and minted from afterwards.
C14_Witness ==
    /\ _collections[1].creator = "alice"
    /\ _owners[1] = "bob"
    /\ _tokenToCollection[1] = 1
    /\ _collections[2].exists
    /\ Cardinality(tokenLog) = 2
    /\ Len(mintLog[2]) = 1

\* C15: after a collection is created no step changes its name, maxSupply,
\* creator or baseTokenId, and the collection is never deleted.
C15_CollectionFieldsImmutable ==
    [][\A i \in CollectionIds :
          _collections[i].exists =>
             /\ _collections'[i].exists
             /\ _collections'[i].name = _collections[i].name
             /\ _collections'[i].maxSupply = _collections[i].maxSupply
             /\ _collections'[i].creator = _collections[i].creator
             /\ _collections'[i].baseTokenId = _collections[i].baseTokenId
      ]_vars

\* The first collection still shows the arguments of its creation after it
\* was minted out, its handle was replaced and a second collection was created.
C15_Witness ==
    /\ _collections[1].exists /\ _collections[2].exists
    /\ _collections[1].maxSupply = 2
    /\ _collections[1].minted = 2
    /\ _collections[1].baseTokenId = 1
    /\ _collections[1].creator = created[1].creator
    /\ _collections[1].hiddenOwner.plain # _collections[1].creator
    /\ \E sf \in storedFor : sf[2] # _collections[1].hiddenOwner /\ sf[1] = _collections[1].creator

\* C16: getAllCollections never fails and returns totalCollections() views,
\* the i-th being the view getCollection(i) of the i-th collection created,
\* with its current minted count and handle; it is empty on a fresh ledger.
C16_AllCollectionsInOrder ==
    LET all == getAllCollections IN
    /\ all.err = ""
    /\ Len(all.ret) = totalCollections
    /\ totalCollections = 0 => all.ret = <<>>
    /\ \A i \in 1..Len(all.ret) :
          /\ all.ret[i].id = i
          /\ all.ret[i].id = createLog[i]
          /\ all.ret[i] = getCollection(i).ret
          /\ all.ret[i].name = created[i].name
          /\ all.ret[i].creator = created[i].creator
          /\ all.ret[i].baseTokenId = created[i].baseTokenId
          /\ all.ret[i].minted = Len(mintLog[i])
          /\ all.ret[i].hiddenOwner.plain = lastPlain[i]

\* Two collections by different creators; the list shows the mint made from
\* the second one.
C16_Witness ==
    /\ Len(getAllCollections.ret) = 2
    /\ getAllCollections.ret[1].creator # getAllCollections.ret[2].creator
    /\ getAllCollections.ret[1].minted = 0
    /\ getAllCollections.ret[2].minted = 1
    /\ getAllCollections.ret[2].baseTokenId = 3

\* C17: every call emits the events of what it did and nothing else: a
\* successful createCollection one CollectionCreated(id, creator, name,
\* maxSupply, handle), a successful setHiddenOwner one HiddenOwnerUpdated(id,
\* new handle), a successful mint Minted(collectionId, tokenId, minter) and
\* then Transfer(address(0), minter, tokenId), a failed call none.  The
\* events name the id, the token and the handle the call committed.
C17_EventsMatchOperations ==
    [](
        /\ \A sender \in Accounts : \A n \in Names : \A m \in Uint :
           \A h \in Handles : \A proof \in Proofs :
              LET r == createCollection(sender, n, m, h, proof) IN
              r.events = IF r.err # "" THEN <<>>
                         ELSE <<CollectionCreated(r.count, sender, r.colls[r.ret].name,
                                                  r.colls[r.ret].maxSupply,
                                                  r.colls[r.ret].hiddenOwner)>>
        /\ \A sender \in Accounts : \A i \in CollectionIds :
           \A h \in Handles : \A proof \in Proofs :
              LET r == setHiddenOwner(sender, i, h, proof) IN
              r.events = IF r.err # "" THEN <<>>
                         ELSE <<HiddenOwnerUpdated(i, r.colls[i].hiddenOwner)>>
        /\ \A sender \in Accounts : \A i \in CollectionIds :
              LET r == mint(sender, i) IN
              r.events = IF r.err # "" THEN <<>>
                         ELSE <<Minted(r.t2c[r.ret], r.ret, r.owners[r.ret]),
                                Transfer(ZeroAddress, sender, r.ret)>>
      )

\* After a creation, a replaced handle and a mint: bob's next mint emits
\* Minted and Transfer for token 2, alice's next setHiddenOwner emits the new
\* handle, and bob's setHiddenOwner emits nothing.
C17_Witness ==
    /\ _collections[1].creator = "alice"
    /\ Cardinality(storedFor) = 2
    /\ tokenLog = {<<1, "alice", 1>>}
    /\ mint("bob", 1).events = <<Minted(1, 2, "bob"), Transfer(ZeroAddress, "bob", 2)>>
    /\ setHiddenOwner("alice", 1, [plain |-> "bob", user |-> "alice"], "alice").events
          = <<HiddenOwnerUpdated(1, [plain |-> "bob", user |-> "alice"])>>
    /\ setHiddenOwner("bob", 1, [plain |-> "bob", user |-> "bob"], "bob").events = <<>>
    /\ createCollection("bob", "Genesis", 1, [plain |-> "bob", user |-> "bob"], "bob").events
          = <<CollectionCreated(2, "bob", "Genesis", 1, [plain |-> "bob", user |-> "bob"])>>
    /\ createCollection("bob", "Genesis", 0, [plain |-> "bob", user |-> "bob"], "bob").events
          = <<>>

\* C18: the ledger applies the calls of a batch one at a time in some total
\* order: of the n mints signed for a collection that had r free slots when
\* the batch was closed, the first min(n, r) applied succeed and the others
\* fail with SupplyExhausted (so for n > r exactly r succeed and n - r
\* fail); no token id is given to two mints; no two createCollection calls
\* of a batch get the same id or overlapping token-id ranges.
C18_ConcurrentCallsSerialized ==
    LET mints(c) == {a \in Accounts : receipts[a].fn = "mint" /\ receipts[a].id = c}
        creates == {a \in Accounts : receipts[a].fn = "createCollection"
                                      /\ receipts[a].err = ""}
    IN
    /\ \A c \in CollectionIds :
         LET applied == mints(c)
             ok == {a \in applied : receipts[a].err = ""}
             n == Cardinality(applied)
             r == slotsAtClose[c]
         IN
         /\ Cardinality(ok) = IF n < r THEN n ELSE r
         /\ \A a \in applied \ ok : receipts[a].err = "SupplyExhausted"
    /\ \A a, b \in Accounts :
         /\ a # b
         /\ receipts[a].fn = "mint" /\ receipts[a].err = ""
         /\ receipts[b].fn = "mint" /\ receipts[b].err = ""
         => receipts[a].ret # receipts[b].ret
    /\ \A a, b \in creates :
         a # b => /\ receipts[a].ret # receipts[b].ret
                  /\ Range(receipts[a].ret) \cap Range(receipts[b].ret) = {}

\* Two clients both saw the one remaining slot of a collection and both
\* signed a mint; the batch is applied: one minted, one got SupplyExhausted.
C18_Witness ==
    /\ phase = "applying"
    /\ \A a \in Accounts : mempool[a] = NoTx
    /\ \E c \in Existing :
         /\ slotsAtClose[c] = 1
         /\ \A a \in Accounts : receipts[a].fn = "mint" /\ receipts[a].id = c
         /\ \E a, b \in Accounts :
              /\ receipts[a].err = ""
              /\ receipts[b].err = "SupplyExhausted"

\* C19: minting is open: in every reachable state the outcome of
\* mint(collectionId) is the same for every caller; the error kind is fixed
\* by the collection's existence and its minted / maxSupply values, and a
\* successful mint returns the collection's next token id, whoever calls.
C19_MintIgnoresCaller ==
    \A i \in CollectionIds, s1 \in Accounts :
        LET r == mint(s1, i)
            c == _collections[i]
        IN
        /\ r.err = IF ~c.exists THEN "InvalidCollection"
                   ELSE IF c.minted >= c.maxSupply THEN "SupplyExhausted"
                   ELSE ""
        /\ r.err = "" => r.ret = c.baseTokenId + c.minted
        /\ \A s2 \in Accounts :
             /\ mint(s2, i).err = r.err
             /\ mint(s2, i).ret = r.ret

\* A token of a collection was minted by an account that is not its
\* creator, and the collection still has supply that both accounts can mint.
C19_Witness ==
    \E e \in tokenLog :
        /\ e[2] # _collections[e[3]].creator
        /\ _collections[e[3]].minted < _collections[e[3]].maxSupply
        /\ \A s \in Accounts : mint(s, e[3]).err = ""

\* C20 as stated: createCollection fails only with EmptyName, InvalidSupply
\* or an encryption-validation failure, so a call with a non-empty name, a
\* positive maxSupply of the integer type and a valid encrypted input always
\* succeeds, also when the cursor plus maxSupply exceeds the integer range.
C20_SucceedsForEveryPositiveSupply ==
    \A sender \in Accounts, collectionName \in Names \ {""},
       maxSupply \in 1..UintMax, hiddenOwnerInput \in Handles :
        fromExternalOk(sender, hiddenOwnerInput, ProofOf(hiddenOwnerInput))
        => createCollection(sender, collectionName, maxSupply, hiddenOwnerInput,
                            ProofOf(hiddenOwnerInput)).err = ""

\* C20 (amended): createCollection fails with EmptyName, InvalidSupply, an
\* encryption-validation failure, or - for otherwise valid arguments - with
\* an arithmetic overflow panic exactly when the token-id cursor plus
\* maxSupply exceeds the integer range; the panic changes nothing, and
\* every other call succeeds.
C20_FailsAlsoOnCursorOverflow ==
    \A sender \in Accounts, collectionName \in Names, maxSupply \in Uint,
       hiddenOwnerInput \in Handles, inputProof \in Proofs :
        LET r == createCollection(sender, collectionName, maxSupply,
                                  hiddenOwnerInput, inputProof) IN
        /\ r.err = IF collectionName = "" THEN "EmptyName"
                   ELSE IF maxSupply = 0 THEN "InvalidSupply"
                   ELSE IF ~fromExternalOk(sender, hiddenOwnerInput, inputProof)
                        THEN "InvalidProof"
                   ELSE IF _nextTokenId + maxSupply > UintMax THEN "Panic"
                   ELSE ""
        /\ r.err = "Panic" => After(r) = ledger

\* After a collection was created, a valid call with the largest supply
\* panics on the cursor while a valid call with supply 1 succeeds.
C20_Witness ==
    /\ Len(createLog) >= 1
    /\ \E sender \in Accounts :
         LET input == [plain |-> sender, user |-> sender] IN
         /\ createCollection(sender, "Genesis", UintMax, input, ProofOf(input)).err = "Panic"
         /\ createCollection(sender, "Genesis", 1, input, ProofOf(input)).err = ""

\* mint(collectionId) fails with SupplyExhausted for some caller.
ExhaustedFor(i) == \E s \in Accounts : mint(s, i).err = "SupplyExhausted"

\* C21: supply exhaustion is permanent: when a mint of a collection fails
\* with SupplyExhausted, then after any step (createCollection,
\* setHiddenOwner, a mint elsewhere) a mint of that collection by any caller
\* fails with SupplyExhausted again.
C21_ExhaustionIsPermanent ==
    [][\A i \in CollectionIds :
          ExhaustedFor(i) =>
             (\A s \in Accounts : mint(s, i).err = "SupplyExhausted")'
      ]_vars

\* Collection 1 is minted out; afterwards a second collection was created,
\* minted from, and the handle of collection 1 was replaced.
C21_Witness ==
    /\ _collectionCount = 2
    /\ ExhaustedFor(1)
    /\ _collections[2].minted >= 1
    /\ lastPlain[1] # _collections[1].creator
    /\ \A s \in Accounts : mint(s, 1).err = "SupplyExhausted"

\* C22: the ledger never revokes an authorization: over every step the set
\* of (handle, principal) grants only grows, and every handle ever stored
\* for a collection, superseded or current, stays readable by the
\* collection's creator and by the ledger.
C22_GrantsOnlyGrow ==
    [][/\ acl \subseteq acl'
       /\ \A sf \in storedFor' :
            /\ <<sf[2], sf[1]>> \in acl'
            /\ <<sf[2], This>> \in acl'
      ]_vars

\* The handle of collection 1 was replaced by a different one; the creator
\* and the ledger hold grants on both.
C22_Witness ==
    /\ _collectionCount = 1
    /\ \E h \in Handles :
         /\ h # _collections[1].hiddenOwner
         /\ <<_collections[1].creator, h>> \in storedFor
         /\ {<<h, This>>, <<h, _collections[1].creator>>,
             <<_collections[1].hiddenOwner, This>>,
             <<_collections[1].hiddenOwner, _collections[1].creator>>} \subseteq acl

RECURSIVE SumMaxSupply(_)
\* The sum of maxSupply over the collections 1..n.
SumMaxSupply(n) == IF n = 0 THEN 0 ELSE SumMaxSupply(n - 1) + _collections[n].maxSupply

\* C23: the token-id cursor is 1 plus the sum of maxSupply over the created
\* collections, each collection's baseTokenId is the cursor value just
\* before its creation, and the reserved ranges of collections 1..n in id
\* order tile [1, cursor - 1] with no gap, the first starting at 1.
C23_RangesTileTheCursor ==
    /\ _nextTokenId = 1 + SumMaxSupply(_collectionCount)
    /\ \A i \in 1.._collectionCount :
         /\ _collections[i].baseTokenId = created[i].baseTokenId
         /\ _collections[i].baseTokenId = 1 + SumMaxSupply(i - 1)
         /\ i = 1 => _collections[i].baseTokenId = 1
         /\ i > 1 => _collections[i].baseTokenId =
                        _collections[i - 1].baseTokenId + _collections[i - 1].maxSupply
    /\ UNION {Range(i) : i \in 1.._collectionCount} = 1..(_nextTokenId - 1)

\* Two collections of different supplies: the second starts right after the first.
C23_Witness ==
    /\ _collectionCount = 2
    /\ _collections[1].maxSupply = 2
    /\ _collections[2].maxSupply = 1
    /\ _collections[2].baseTokenId = 3
    /\ _nextTokenId = 4

\* The minted prefix [baseTokenId, baseTokenId + minted - 1] of a collection's range.
MintedPrefix(c) ==
    _collections[c].baseTokenId .. (_collections[c].baseTokenId + _collections[c].minted - 1)

\* C24: the minted token ids are exactly the union over the collections c of
\* the prefix [c.baseTokenId, c.baseTokenId + c.minted - 1] of c's range, and
\* tokenCollection returns c for each of them: no id outside a range or
\* beyond a prefix has an owner, and no id inside a prefix is skipped.
C24_MintedIdsArePrefixes ==
    /\ {t \in Uint : tokenExists(t)} = UNION {MintedPrefix(c) : c \in Existing}
    /\ MintedIds = {t \in Uint : tokenExists(t)}
    /\ \A c \in Existing : \A t \in MintedPrefix(c) :
         /\ t \in Range(c)
         /\ tokenCollection(t) = [err |-> "", ret |-> c]

\* Two collections, both minted from: id 2 (reserved by the first, beyond
\* its minted prefix) and id 4 (reserved by nobody) have no owner, ids 1
\* and 3 have one.
C24_Witness ==
    /\ _collectionCount = 2
    /\ _collections[1].maxSupply = 2 /\ _collections[1].minted = 1
    /\ _collections[2].maxSupply = 1 /\ _collections[2].minted = 1
    /\ tokenExists(1) /\ ~tokenExists(2) /\ tokenExists(3) /\ ~tokenExists(4)

\* C25: a successful mint(collectionId) by caller p changes only that
\* collection's minted (+1), the owner and the collection back-reference of
\* the newly assigned token id, and p's balance (+1); the collection count,
\* the cursor, every other collection, every handle and grant, every
\* previously minted token and every other balance stay as they were.
C25_MintFrame ==
    [](
        \A p \in Accounts : \A i \in CollectionIds :
            LET r == mint(p, i) IN
            r.err = "" =>
               /\ r.count = _collectionCount
               /\ r.next = _nextTokenId
               /\ r.grants = acl
               /\ r.colls = [_collections EXCEPT ![i].minted = _collections[i].minted + 1]
               /\ \A j \in CollectionIds : r.colls[j].hiddenOwner = _collections[j].hiddenOwner
               /\ _owners[r.ret] = ZeroAddress
               /\ r.owners = [_owners EXCEPT ![r.ret] = p]
               /\ r.t2c = [_tokenToCollection EXCEPT ![r.ret] = i]
               /\ r.balances = [_balances EXCEPT ![p] = _balances[p] + 1]
      )

\* bob holds token 1 of collection 1; alice can mint from collection 2,
\* which leaves bob's token, his balance and collection 1 alone.
C25_Witness ==
    /\ _collectionCount = 2
    /\ _owners[1] = "bob"
    /\ _balances["bob"] = 1
    /\ _balances["alice"] = 1
    /\ _owners[_collections[2].baseTokenId] = "alice"
    /\ mint("alice", 2).err = ""

\* C26: a successful setHiddenOwner(collectionId, ...) changes only that
\* collection's hiddenOwner handle and adds the grants of the ledger and of
\* the caller on the new handle; minted, the collection count, the cursor,
\* all other collections and all token owners, back-references and
\* balances stay as they were.
C26_SetHiddenOwnerFrame ==
    [](
        \A sender \in Accounts : \A i \in CollectionIds :
        \A h \in Handles : \A proof \in Proofs :
            LET r == setHiddenOwner(sender, i, h, proof) IN
            r.err = "" =>
               /\ r.colls = [_collections EXCEPT ![i].hiddenOwner = h]
               /\ r.colls[i].minted = _collections[i].minted
               /\ r.grants = acl \cup {<<h, This>>, <<h, sender>>}
               /\ r.count = _collectionCount
               /\ r.next = _nextTokenId
               /\ r.owners = _owners
               /\ r.t2c = _tokenToCollection
               /\ r.balances = _balances
      )

\* Collection 1 has a minted token and a replaced handle, collection 2 its
\* first handle; the creator of collection 1 can replace the handle again.
C26_Witness ==
    /\ _collectionCount = 2
    /\ _collections[1].minted = 1
    /\ lastPlain[1] # _collections[1].creator
    /\ lastPlain[2] = _collections[2].creator
    /\ \E h \in Handles :
         /\ h # _collections[1].hiddenOwner
         /\ setHiddenOwner(_collections[1].creator, 1, h, ProofOf(h)).err = ""

\* C27: setHiddenOwner checks existence, then the caller, then the encrypted
\* input: on a never-created id every caller gets InvalidCollection, a
\* non-creator on an existing collection gets NotCollectionOwner also when
\* its input or proof would not validate, and only the creator can get the
\* validation failure.
C27_SetHiddenOwnerCheckOrder ==
    [](
        \A sender \in Accounts : \A i \in CollectionIds :
        \A h \in Handles : \A proof \in Proofs :
            setHiddenOwner(sender, i, h, proof).err =
                IF i \notin CreatedIds THEN "InvalidCollection"
                ELSE IF sender # created[i].creator THEN "NotCollectionOwner"
                ELSE IF ~fromExternalOk(sender, h, proof) THEN "InvalidProof"
                ELSE ""
      )

\* bob's collection 1 exists and id 2 was never created: alice, with an
\* input encrypted for bob, is refused as non-creator on 1 and gets
\* InvalidCollection on 2; bob himself gets the validation failure.
C27_Witness ==
    /\ _collectionCount = 1
    /\ _collections[1].creator = "bob"
    /\ LET h == [plain |-> "alice", user |-> "bob"] IN
       /\ ~fromExternalOk("alice", h, "bob")
       /\ setHiddenOwner("alice", 1, h, "bob").err = "NotCollectionOwner"
       /\ setHiddenOwner("alice", 2, h, "bob").err = "InvalidCollection"
       /\ setHiddenOwner("bob", 1, h, "alice").err = "InvalidProof"

\* C28: createCollection validates the name, then maxSupply, then the
\* encrypted input: an empty name fails with EmptyName also when maxSupply
\* is 0 or the proof is invalid, a non-empty name with maxSupply = 0 fails
\* with InvalidSupply also when the proof is invalid, and in both cases the
\* encryption service is asked nothing and no grant is made; with a name
\* and a positive supply the input is the first thing the service is asked.
C28_CreateCollectionCheckOrder ==
    [](
        \A sender \in Accounts : \A n \in Names : \A m \in Uint :
        \A h \in Handles : \A proof \in Proofs :
            LET r == createCollection(sender, n, m, h, proof) IN
            /\ n = "" => r.err = "EmptyName" /\ r.asked = <<>> /\ r.grants = acl
            /\ (n # "" /\ m = 0) =>
                  r.err = "InvalidSupply" /\ r.asked = <<>> /\ r.grants = acl
            /\ (n # "" /\ m > 0) => Len(r.asked) >= 1 /\ r.asked[1] = "fromExternal"
            /\ (n # "" /\ m > 0 /\ ~fromExternalOk(sender, h, proof)) =>
                  r.err = "InvalidProof" /\ r.asked = <<"fromExternal">>
      )

\* After a first creation: a call with an empty name, supply 0 and a proof
\* made for another account gets EmptyName, the same call with a name gets
\* InvalidSupply, and with a supply as well it gets the validation failure.
C28_Witness ==
    /\ Len(createLog) = 1
    /\ LET h == [plain |-> "alice", user |-> "bob"] IN
       /\ createCollection("alice", "", 0, h, "bob").err = "EmptyName"
       /\ createCollection("alice", "Genesis", 0, h, "bob").err = "InvalidSupply"
       /\ createCollection("alice", "Genesis", 1, h, "bob").err = "InvalidProof"
       /\ createCollection("alice", "Genesis", 1, h, "bob").asked = <<"fromExternal">>

\* C29: the three token accessors agree for every token id t: tokenExists(t)
\* is true iff ownerOf(t) succeeds iff tokenCollection(t) succeeds, and
\* tokenExists always returns a boolean.
C29_TokenAccessorsAgree ==
    \A t \in Uint :
        /\ tokenExists(t) \in BOOLEAN
        /\ tokenExists(t) <=> (ownerOf(t).err = "")
        /\ (ownerOf(t).err = "") <=> (tokenCollection(t).err = "")
        /\ ~tokenExists(t) =>
              ownerOf(t).err = "InvalidToken" /\ tokenCollection(t).err = "InvalidToken"

\* Token 1 is minted, token 2 is reserved but not minted, token 0 is no token.
C29_Witness ==
    /\ tokenExists(1) /\ ownerOf(1).err = "" /\ tokenCollection(1).ret = 1
    /\ 2 \in Range(1)
    /\ ~tokenExists(2) /\ tokenCollection(2).err = "InvalidToken"
    /\ ~tokenExists(0)

RECURSIVE SumBalances(_)
\* The sum of the balances of the accounts in S.
SumBalances(S) ==
    IF S = {} THEN 0
    ELSE LET a == CHOOSE x \in S : TRUE IN _balances[a] + SumBalances(S \ {a})

RECURSIVE SumMinted(_)
\* The sum of minted over the collections 1..n.
SumMinted(n) == IF n = 0 THEN 0 ELSE SumMinted(n - 1) + _collections[n].minted

\* C30: the sum of the balances of all principals equals the sum of minted
\* over all collections, which equals the number of token ids with an owner.
C30_BalancesSumToMinted ==
    /\ SumBalances(Accounts) = SumMinted(_collectionCount)
    /\ SumMinted(_collectionCount) = Cardinality({t \in Uint : _owners[t] # ZeroAddress})
    /\ \A i \in CollectionIds \ (1.._collectionCount) : _collections[i].minted = 0

\* Three tokens of two collections are held by two accounts, one of which
\* minted twice.
C30_Witness ==
    /\ _collectionCount = 2
    /\ _collections[1].minted >= 1
    /\ _collections[2].minted >= 1
    /\ _balances["alice"] = 2
    /\ _balances["bob"] = 1

\* C31: in the CollectionCard client a busy flag (isMinting, isUpdating,
\* isDecrypting) that a handler has set is eventually reset to false once the
\* calls the handler awaits settle, whether they resolve or throw; and while
\* the active address is not the collection's creator, handleUpdateHiddenOwner
\* and handleDecryptHiddenOwner never set their flag and never submit anything.
C31_BusyFlagsReset ==
    /\ \A h \in Handlers : busy[h] ~> ~busy[h]
    /\ [](~isCreator =>
            \A h \in {"handleUpdateHiddenOwner", "handleDecryptHiddenOwner"} :
                ~busy[h] /\ pc[h] = Idle /\ h \notin submitted)

\* The creator's update ran to its end, transaction submitted and mined, and
\* its flag is reset, while handleMint holds its flag with a rejected await
\* about to be thrown into catch.
C31_Witness ==
    /\ isCreator
    /\ "handleUpdateHiddenOwner" \in submitted
    /\ ~busy["handleUpdateHiddenOwner"]
    /\ lastPlain[CardId] # CardCreator
    /\ busy["handleMint"]
    /\ pc["handleMint"].st = "rejected"

====
